---------------------------- MODULE Spec2Model ----------------------------
(***************************************************************************)
(* Model of streak_app.py (Daily Streak Tracker).                          *)
(*                                                                         *)
(* State: the CSV file DATA_FILE, the Streamlit session_state (keys        *)
(* "data", "today", "count"), the wall clock date, and what the last run   *)
(* of main() rendered.  One script run of main() is one action (Main); a   *)
(* button click runs its callback (AddOutreach / RemoveOutreach) and is    *)
(* followed by a rerun of main().                                          *)
(*                                                                         *)
(* Row indexes are 1-based here (pandas: 0-based RangeIndex).              *)
(***************************************************************************)
EXTENDS Integers, Sequences, FiniteSets, TLC

VARIABLES
    now,            \* datetime.date.today(), as <<year, month, day>>
    file,           \* contents of DATA_FILE
    session_state,  \* st.session_state: a function on the keys that are set
    phase,          \* "fresh": no script run yet in this session,
                    \* "idle": main() has rendered, "rerun": a callback has run
    effects,        \* what the last handler did besides changing state
    view,           \* what the last run of main() displayed
    last            \* the last callback of the session (history variable)

vars == <<now, file, session_state, phase, effects, view, last>>

---------------------------------------------------------------------------
(* Bounds of the model *)

\* how many times the calendar date advances
MaxDays == 2
\* cap on a row's count in the interactive specification
MaxCount == 2
\* longest table drawn for the rendering specification
MaxRows == 7
\* longest table drawn for the calendar specification
MaxCalendarRows == 3

(* Program constants *)

DAILY_GOAL == 10
WEEK_ROWS == 7

---------------------------------------------------------------------------
(* Dates: datetime.date and the calendar module *)

IsLeap(y) == (y % 4 = 0) /\ ((y % 100 # 0) \/ (y % 400 = 0))

DaysInMonth(y, m) ==
    IF m = 2 THEN (IF IsLeap(y) THEN 29 ELSE 28)
    ELSE IF m \in {4, 6, 9, 11} THEN 30 ELSE 31

RECURSIVE DaysBeforeMonth(_, _)
DaysBeforeMonth(y, m) ==
    IF m = 1 THEN 0 ELSE DaysBeforeMonth(y, m - 1) + DaysInMonth(y, m - 1)

DaysBeforeYear(y) ==
    LET p == y - 1 IN p * 365 + (p \div 4) - (p \div 100) + (p \div 400)

ToOrdinal(date) ==
    DaysBeforeYear(date[1]) + DaysBeforeMonth(date[1], date[2]) + date[3]

\* date.weekday(): Monday is 0
Weekday(date) == (ToOrdinal(date) + 6) % 7

NextDay(date) ==
    IF date[3] < DaysInMonth(date[1], date[2]) THEN <<date[1], date[2], date[3] + 1>>
    ELSE IF date[2] < 12 THEN <<date[1], date[2] + 1, 1>>
    ELSE <<date[1] + 1, 1, 1>>

PrevDay(date) ==
    IF date[3] > 1 THEN <<date[1], date[2], date[3] - 1>>
    ELSE IF date[2] > 1 THEN <<date[1], date[2] - 1, DaysInMonth(date[1], date[2] - 1)>>
    ELSE <<date[1] - 1, 12, 31>>

---------------------------------------------------------------------------
(* Text: decimal formatting and parsing.  A string of digits is a sequence *)
(* of digits; a date string "YYYY-MM-DD" is its three dash-separated       *)
(* fields.                                                                 *)

RECURSIVE Dec(_)
Dec(n) == IF n < 10 THEN <<n>> ELSE Append(Dec(n \div 10), n % 10)

RECURSIVE ZeroPad(_, _)
ZeroPad(digits, width) ==
    IF Len(digits) >= width THEN digits ELSE ZeroPad(<<0>> \o digits, width)

RECURSIVE ParseInt(_)
ParseInt(digits) ==
    IF Len(digits) = 0 THEN 0
    ELSE ParseInt(SubSeq(digits, 1, Len(digits) - 1)) * 10 + digits[Len(digits)]

\* date.isoformat(): "%04d-%02d-%02d"
isoformat(date) == <<ZeroPad(Dec(date[1]), 4), ZeroPad(Dec(date[2]), 2), ZeroPad(Dec(date[3]), 2)>>

\* mutant: f"{year}-{month}-{day}"
date_str_nopad(year, month, day) == <<Dec(year), Dec(month), Dec(day)>>

\* f"{year}-{month:02d}-{day:02d}"
date_str(year, month, day) == <<Dec(year), ZeroPad(Dec(month), 2), ZeroPad(Dec(day), 2)>>

---------------------------------------------------------------------------
(* 1. Data loading / saving *)

NoFile == [exists |-> FALSE, lines |-> <<>>]

RECURSIVE write_rows(_)
write_rows(df) ==
    IF Len(df) = 0 THEN <<>>
    ELSE <<[date |-> df[1].date, count |-> Dec(df[1].count)]>> \o write_rows(Tail(df))

RECURSIVE read_rows(_)
read_rows(lines) ==
    IF Len(lines) = 0 THEN <<>>
    ELSE <<[date |-> lines[1].date, count |-> ParseInt(lines[1].count)]>> \o read_rows(Tail(lines))

\* df.to_csv(DATA_FILE, index=False): header, then one line "date,count" per row
save_data(df) ==
    [exists |-> TRUE, lines |-> write_rows(df)]

\* pd.read_csv(DATA_FILE), or an empty frame when the file is missing or empty
load_data(f) ==
    IF f.exists
    THEN read_rows(f.lines)
    ELSE <<>>

Has(ss, key) == key \in DOMAIN ss

Dates(df) == {df[i].date : i \in 1..Len(df)}

\* df.index[df["date"] == d][0]
FirstIndex(df, d) == CHOOSE i \in 1..Len(df) : df[i].date = d /\ \A j \in 1..(i - 1) : df[j].date # d

\* mutant: appends today's row without looking for it
ensure_today_always(df, today_str) ==
    df \o <<[date |-> today_str, count |-> 0]>>

\* mutant: puts today's row first
ensure_today_front(df, today_str) ==
    IF today_str \notin Dates(df)
    THEN <<[date |-> today_str, count |-> 0]>> \o df
    ELSE df

\* the ensure-today step: df with a row for today_str appended if it has none
ensure_today(df, today_str) ==
    IF today_str \notin Dates(df)
    THEN df \o <<[date |-> today_str, count |-> 0]>>
    ELSE df

init_data(ss, f, today) ==
    LET today_str == isoformat(today)
        s1 == IF ~Has(ss, "data") THEN ss @@ ("data" :> load_data(f)) ELSE ss
        s2 == [s1 EXCEPT !["data"] = ensure_today(@, today_str)]
        s3 == IF ~Has(s2, "today") THEN s2 @@ ("today" :> today_str) ELSE s2
        s4 == IF ~Has(s3, "count")
              THEN s3 @@ ("count" :> s3["data"][FirstIndex(s3["data"], s3["today"])].count)
              ELSE s3
    IN s4

\* df.tail(n)
tail(df, n) == IF Len(df) <= n THEN df ELSE SubSeq(df, Len(df) - n + 1, Len(df))

RECURSIVE SumCounts(_)
SumCounts(df) == IF Len(df) = 0 THEN 0 ELSE df[1].count + SumCounts(Tail(df))

\* mutant: sums every row
compute_weekly_count_all(df) == SumCounts(df)

compute_weekly_count(df) == SumCounts(tail(df, WEEK_ROWS))

\* mutant: no break at the first row below the goal
RECURSIVE streak_scan_nobreak(_, _)
streak_scan_nobreak(df, i) ==
    IF i = 0 THEN 0
    ELSE (IF df[i].count >= DAILY_GOAL THEN 1 ELSE 0) + streak_scan_nobreak(df, i - 1)

\* the streak loop of main(): scan rows from the last one back, stop at the
\* first row below the daily goal
RECURSIVE streak_scan(_, _)
streak_scan(df, i) ==
    IF i = 0 THEN 0
    ELSE IF df[i].count >= DAILY_GOAL THEN 1 + streak_scan(df, i - 1)
    ELSE 0

consecutive_streak(df) == streak_scan(df, Len(df))

---------------------------------------------------------------------------
(* 2. Monthly calendar with a tick for >= 10 *)

\* calendar.monthcalendar(year, month): weeks of 7 day numbers, Monday first,
\* 0 for the days outside the month
monthcalendar(year, month) ==
    LET day1 == Weekday(<<year, month, 1>>)
        ndays == DaysInMonth(year, month)
        days_after == (7 - ((day1 + ndays) % 7)) % 7
        total == day1 + ndays + days_after
        days == [i \in 1..total |->
                    IF i <= day1 THEN 0
                    ELSE IF i <= day1 + ndays THEN i - day1
                    ELSE 0]
    IN [w \in 1..(total \div 7) |-> SubSeq(days, 7 * (w - 1) + 1, 7 * w)]

\* counts[row['date']] = row['count'] over the rows in order: the last row wins
RECURSIVE counts_upto(_, _)
counts_upto(df, i) ==
    IF i = 0 THEN [d \in {} |-> 0]
    ELSE (df[i].date :> df[i].count) @@ counts_upto(df, i - 1)

counts_lookup(df) == counts_upto(df, Len(df))

EmptyDay == [class |-> "empty-day", day |-> 0, checkmark |-> FALSE]

calendar_cell(counts, year, month, day) ==
    IF day = 0 THEN EmptyDay
    ELSE LET ds == date_str(year, month, day)
             day_count == IF ds \in DOMAIN counts THEN counts[ds] ELSE 0
         IN IF day_count >= DAILY_GOAL
            THEN [class |-> "filled-cell", day |-> day, checkmark |-> TRUE]
            ELSE [class |-> "empty-cell", day |-> day, checkmark |-> FALSE]

render_weeks(counts, cal, year, month) ==
    [w \in 1..Len(cal) |->
        [c \in 1..7 |-> calendar_cell(counts, year, month, cal[w][c])]]

render_monthly_calendar(df, today) ==
    render_weeks(counts_lookup(df), monthcalendar(today[1], today[2]), today[1], today[2])

---------------------------------------------------------------------------
(* 3. Callbacks for + / - outreach.  Each gives the session state, the     *)
(* file and the effects after the call.                                    *)

\* mutant: no save_data call
add_outreach_nosave(ss, f, row_idx) ==
    LET df == [ss["data"] EXCEPT ![row_idx].count = @ + 1]
        is_today == df[row_idx].date = ss["today"]
        s1 == [ss EXCEPT !["data"] = df]
        s2 == IF is_today THEN [s1 EXCEPT !["count"] = df[row_idx].count] ELSE s1
    IN [ss |-> s2, file |-> f,
        effects |-> IF is_today /\ s2["count"] = DAILY_GOAL THEN {"balloons"} ELSE {}]

\* mutant: counts on today's row whatever button was clicked
add_outreach_today(ss, f, row_idx) ==
    LET t == FirstIndex(ss["data"], ss["today"])
        df == [ss["data"] EXCEPT ![t].count = @ + 1]
        s2 == [ss EXCEPT !["data"] = df, !["count"] = df[t].count]
    IN [ss |-> s2,
        file |-> save_data(df),
        effects |-> {"save"} \cup (IF s2["count"] = DAILY_GOAL THEN {"balloons"} ELSE {})]

\* mutant: session_state["count"] is not refreshed
add_outreach_nocache(ss, f, row_idx) ==
    LET df == [ss["data"] EXCEPT ![row_idx].count = @ + 1]
    IN [ss |-> [ss EXCEPT !["data"] = df], file |-> save_data(df), effects |-> {"save"}]

add_outreach(ss, f, row_idx) ==
    LET df == [ss["data"] EXCEPT ![row_idx].count = @ + 1]
        is_today == df[row_idx].date = ss["today"]
        s1 == [ss EXCEPT !["data"] = df]
        s2 == IF is_today THEN [s1 EXCEPT !["count"] = df[row_idx].count] ELSE s1
    IN [ss |-> s2,
        file |-> save_data(df),
        effects |-> {"save"} \cup
                    (IF is_today /\ s2["count"] = DAILY_GOAL THEN {"balloons"} ELSE {})]

\* mutant: the guard is >= 0
remove_outreach_below_zero(ss, f, row_idx) ==
    IF ss["data"][row_idx].count >= 0
    THEN LET df == [ss["data"] EXCEPT ![row_idx].count = @ - 1]
             s1 == [ss EXCEPT !["data"] = df]
             s2 == IF df[row_idx].date = ss["today"]
                   THEN [s1 EXCEPT !["count"] = df[row_idx].count]
                   ELSE s1
         IN [ss |-> s2, file |-> save_data(df), effects |-> {"save"}]
    ELSE [ss |-> ss, file |-> f, effects |-> {"warning"}]

\* mutant: save_data runs before the count is lowered
remove_outreach_save_first(ss, f, row_idx) ==
    IF ss["data"][row_idx].count > 0
    THEN LET df == [ss["data"] EXCEPT ![row_idx].count = @ - 1]
             s1 == [ss EXCEPT !["data"] = df]
             s2 == IF df[row_idx].date = ss["today"]
                   THEN [s1 EXCEPT !["count"] = df[row_idx].count]
                   ELSE s1
         IN [ss |-> s2, file |-> save_data(ss["data"]), effects |-> {"save"}]
    ELSE [ss |-> ss, file |-> f, effects |-> {"warning"}]

remove_outreach(ss, f, row_idx) ==
    IF ss["data"][row_idx].count > 0
    THEN LET df == [ss["data"] EXCEPT ![row_idx].count = @ - 1]
             s1 == [ss EXCEPT !["data"] = df]
             s2 == IF df[row_idx].date = ss["today"]
                   THEN [s1 EXCEPT !["count"] = df[row_idx].count]
                   ELSE s1
         IN [ss |-> s2, file |-> save_data(df), effects |-> {"save"}]
    ELSE [ss |-> ss, file |-> f, effects |-> {"warning"}]

---------------------------------------------------------------------------
(* The state machine *)

EmptySession == [k \in {} |-> 0]

NoView == [today_str |-> <<>>, today_count |-> 0, weekly_count |-> 0,
           consecutive_streak |-> 0, cal |-> <<>>]

StartDate == <<2024, 2, 28>>

NoCallback == [op |-> "none", idx |-> 0, pre |-> 0, post |-> 0, persisted |-> 0, paired |-> -1]

Init ==
    /\ now = StartDate
    /\ file = NoFile
    /\ session_state = EmptySession
    /\ phase = "fresh"
    /\ effects = {}
    /\ view = NoView
    /\ last = NoCallback

\* 4. one script run: main()
Main ==
    \E ss \in {init_data(session_state, file, now)} :
    LET df == ss["data"]
        before == IF Has(session_state, "data") THEN session_state["data"] ELSE load_data(file)
    IN /\ session_state' = ss
       /\ view' = [today_str |-> ss["today"],
                   today_count |-> ss["count"],
                   weekly_count |-> compute_weekly_count(df),
                   consecutive_streak |-> consecutive_streak(df),
                   cal |-> render_monthly_calendar(df, now)]
       /\ effects' = (IF Has(session_state, "data") THEN {} ELSE {"load"})
                     \cup (IF Len(df) # Len(before) THEN {"append"} ELSE {})
       /\ phase' = "idle"
       /\ UNCHANGED <<now, file, last>>

\* the count of row idx as the file holds it, -1 when the file has no such row
Persisted(f, idx) ==
    LET t == load_data(f) IN IF idx <= Len(t) THEN t[idx].count ELSE -1

\* The record of a callback: the row's count before and after it, the count
\* the file holds for the row after it, and, for a "remove" that directly
\* follows an "add" on the same row, the count the row had before that add
\* (paired; -1 otherwise).
Callback(op, row_idx, r) ==
    /\ session_state' = r.ss
    /\ file' = r.file
    /\ effects' = r.effects
    /\ phase' = "rerun"
    /\ last' = [op |-> op, idx |-> row_idx,
                pre |-> session_state["data"][row_idx].count,
                post |-> r.ss["data"][row_idx].count,
                persisted |-> Persisted(r.file, row_idx),
                paired |-> IF op = "remove" /\ last.op = "add" /\ last.idx = row_idx
                           THEN last.pre ELSE -1]
    /\ UNCHANGED <<now, view>>

\* a click on the "+" button of row row_idx
AddOutreach ==
    /\ phase = "idle"
    /\ \E row_idx \in 1..Len(session_state["data"]) :
          /\ session_state["data"][row_idx].count < MaxCount
          /\ Callback("add", row_idx, add_outreach(session_state, file, row_idx))

\* a click on the "-" button of row row_idx
RemoveOutreach ==
    /\ phase = "idle"
    /\ \E row_idx \in 1..Len(session_state["data"]) :
          Callback("remove", row_idx, remove_outreach(session_state, file, row_idx))

\* the calendar date advances
Tick ==
    /\ ToOrdinal(now) - ToOrdinal(StartDate) < MaxDays
    /\ now' = NextDay(now)
    /\ UNCHANGED <<file, session_state, phase, effects, view, last>>

\* a new session (page reload, process restart): session_state starts empty
NewSession ==
    /\ phase = "idle"
    /\ session_state' = EmptySession
    /\ phase' = "fresh"
    /\ effects' = {}
    /\ view' = NoView
    /\ last' = NoCallback
    /\ UNCHANGED <<now, file>>

Next == Main \/ AddOutreach \/ RemoveOutreach \/ Tick \/ NewSession

Spec == Init /\ [][Next]_vars

---------------------------------------------------------------------------
(* The rendering specifications: main() run on tables drawn from a bounded *)
(* set of files earlier sessions can have written.                         *)

DrawCounts == {0, 9, 10}

RenderDates == {<<2024, 6, 3>>}

\* the date strings of n consecutive days, the last of them `end`
RECURSIVE DrawnDates(_, _)
DrawnDates(end, n) ==
    IF n = 0 THEN <<>> ELSE Append(DrawnDates(PrevDay(end), n - 1), isoformat(end))

DrawnTable(ds, cs) == [i \in 1..Len(ds) |-> [date |-> ds[i], count |-> cs[i]]]

\* A new session on one of the dates `days`; the file holds up to `rows` rows
\* on consecutive days, the last one today or yesterday, with counts in `counts`.
DrawnInit(days, rows, counts) ==
    /\ now \in days
    /\ \E n \in 0..rows, end \in {now, PrevDay(now)} :
          \E ds \in {DrawnDates(end, n)} :
             \E cs \in [1..n -> counts] :
                file = save_data(DrawnTable(ds, cs))
    /\ session_state = EmptySession
    /\ phase = "fresh"
    /\ effects = {}
    /\ view = NoView
    /\ last = NoCallback

RenderInit == DrawnInit(RenderDates, MaxRows, DrawCounts)

RenderNext == Main

SpecRender == RenderInit /\ [][RenderNext]_vars

\* months of 28, 29, 30 and 31 days, of 4, 5 and 6 weeks, starting on a
\* Monday and on a Sunday
CalendarDates ==
    {<<2024, 6, 15>>, <<2024, 2, 29>>, <<2023, 2, 1>>, <<2021, 2, 14>>,
     <<2024, 9, 30>>, <<2023, 12, 31>>, <<2024, 7, 1>>}

CalendarCounts == {9, 10, 11}

CalendarInit == DrawnInit(CalendarDates, MaxCalendarRows, CalendarCounts)

CalendarNext == Main

SpecCalendar == CalendarInit /\ [][CalendarNext]_vars

---------------------------------------------------------------------------
(* Properties *)

Loaded == Has(session_state, "data")

Data == session_state["data"]

\* the rows of T that carry the date string d
RowsOf(T, d) == {i \in 1..Len(T) : T[i].date = d}

\* the table init_data starts from: the session's, or the file's on a first run
TableBefore == IF Loaded THEN Data ELSE load_data(file)

\* C1: the in-memory table never holds two rows with the same date, whatever
\* init_data runs (the date staying or advancing), add_outreach and
\* remove_outreach calls have happened.
UniqueDates ==
    Loaded => \A i, j \in 1..Len(Data) : i # j => Data[i].date # Data[j].date

\* three days' rows in memory, a reloaded file, and a lowering remove just done
UniqueDatesWitness ==
    /\ Loaded
    /\ Len(Data) >= 3
    /\ last.op = "remove" /\ last.pre > 0
    /\ Len(file.lines) >= 2

\* C2: a run of init_data on a table without a row for today's date d appends
\* exactly the row {date: d, count: 0} at the end; on a table that has the row
\* it changes nothing; either way the table then has exactly one row for d and
\* a further ensure-today step leaves it as it is.
EnsureTodayOnce ==
    [][Main =>
        LET T == TableBefore
            d == isoformat(now)
            T1 == session_state'["data"]
        IN /\ d \notin Dates(T) => T1 = Append(T, [date |-> d, count |-> 0])
           /\ d \in Dates(T) => T1 = T
           /\ Cardinality(RowsOf(T1, d)) = 1
           /\ ensure_today(T1, d) = T1]_vars

\* a rerun of main() found today's row, which an earlier run of this session
\* appended and nothing has saved yet
EnsureTodayOnceWitness ==
    /\ Loaded
    /\ phase = "idle"
    /\ effects = {}
    /\ Len(Data) >= 2
    /\ Data[Len(Data)] = [date |-> isoformat(now), count |-> 0]
    /\ Persisted(file, Len(Data)) = -1

NoNegativeCount ==
    /\ Loaded => \A i \in 1..Len(Data) : Data[i].count >= 0
    /\ \A i \in 1..Len(load_data(file)) : load_data(file)[i].count >= 0

\* C3: remove_outreach on a row whose count is 0 leaves the table and the file
\* as they are, does not save and raises the warning; and no count, in memory
\* or in the file, is ever negative.
RemoveAtZeroIsNoOp ==
    /\ []NoNegativeCount
    /\ [][(RemoveOutreach /\ last'.pre = 0) =>
            /\ session_state' = session_state
            /\ file' = file
            /\ "save" \notin effects'
            /\ "warning" \in effects']_vars

RemoveAtZeroWitness ==
    /\ phase = "rerun"
    /\ last.op = "remove" /\ last.pre = 0
    /\ "warning" \in effects
    /\ Len(Data) >= 2

\* C4 as stated: whenever an operation has completed, the file holds the
\* in-memory table row for row (the append of today's row by init_data
\* included).
PersistedAfterEveryMutation ==
    (Loaded /\ phase \in {"idle", "rerun"}) => load_data(file) = Data

\* C4, amended: after an add_outreach, and after a remove_outreach that lowered
\* a count, the file holds the in-memory table row for row.
PersistedAfterCountChange ==
    (phase = "rerun" /\ (last.op = "add" \/ (last.op = "remove" /\ last.pre > 0)))
        => load_data(file) = Data

PersistedAfterCountChangeWitness ==
    /\ phase = "rerun"
    /\ last.op = "remove" /\ last.pre > 0
    /\ Len(Data) >= 2
    /\ load_data(file) = Data

RECURSIVE SumFrom(_, _)
SumFrom(T, i) == IF i > Len(T) THEN 0 ELSE T[i].count + SumFrom(T, i + 1)

LongestGoalSuffix(T) ==
    CHOOSE k \in 0..Len(T) :
        /\ \A j \in (Len(T) - k + 1)..Len(T) : T[j].count >= 10
        /\ k < Len(T) => T[Len(T) - k].count < 10

\* C6: the streak main() shows is the length of the longest suffix of the
\* table in which every row has count >= 10.
StreakIsGoalSuffix ==
    (Loaded /\ phase = "idle") => view.consecutive_streak = LongestGoalSuffix(Data)

\* counts ending 10, 9, 10: the streak is 1
StreakWitness ==
    /\ Loaded
    /\ phase = "idle"
    /\ Len(Data) >= 3
    /\ Data[Len(Data)].count = 10
    /\ Data[Len(Data) - 1].count = 9
    /\ Data[Len(Data) - 2].count = 10
    /\ view.consecutive_streak = 1

\* the months the calendar specification renders: the number of days, and the
\* column (1 = Monday) of the 1st
KnownMonth(year, month) ==
    CASE year = 2024 /\ month = 6 -> [days |-> 30, first |-> 6]
      [] year = 2024 /\ month = 2 -> [days |-> 29, first |-> 4]
      [] year = 2023 /\ month = 2 -> [days |-> 28, first |-> 3]
      [] year = 2021 /\ month = 2 -> [days |-> 28, first |-> 1]
      [] year = 2024 /\ month = 9 -> [days |-> 30, first |-> 7]
      [] year = 2023 /\ month = 12 -> [days |-> 31, first |-> 5]
      [] year = 2024 /\ month = 7 -> [days |-> 31, first |-> 1]

DayCells(grid) ==
    {wc \in (1..Len(grid)) \X (1..7) : grid[wc[1]][wc[2]].class # "empty-day"}

MetCells(grid) ==
    {wc \in (1..Len(grid)) \X (1..7) : grid[wc[1]][wc[2]].checkmark}

\* the table holds a count >= 10 for the date string ds
GoalMet(T, ds) == \E i \in 1..Len(T) : T[i].date = ds /\ T[i].count >= 10

\* C7: the calendar grid has exactly one non-empty cell per day of the month
\* (the 1st in the column of its weekday), its padding cells are empty, and a
\* day cell carries the tick exactly when the table holds a count >= 10 for
\* that date; dates the table does not hold are pending.
CalendarMatchesTable ==
    (Loaded /\ phase = "idle") =>
        LET grid == view.cal
            N == KnownMonth(now[1], now[2]).days
        IN /\ \A w \in 1..Len(grid) : Len(grid[w]) = 7
           /\ Cardinality(DayCells(grid)) = N
           /\ {grid[wc[1]][wc[2]].day : wc \in DayCells(grid)} = 1..N
           /\ grid[1][KnownMonth(now[1], now[2]).first].day = 1
           /\ \A w \in 1..Len(grid), c \in 1..7 :
                 LET cell == grid[w][c]
                 IN IF cell.class = "empty-day"
                    THEN cell.day = 0 /\ ~cell.checkmark
                    ELSE /\ cell.checkmark <=> cell.class = "filled-cell"
                         /\ cell.checkmark <=>
                               GoalMet(Data, isoformat(<<now[1], now[2], cell.day>>))

\* June 2024, the table holding 2024-06-15 with count 10 and 2024-06-14 with
\* count 9: 30 day cells, exactly one of them met
CalendarWitness ==
    /\ Loaded
    /\ phase = "idle"
    /\ now = <<2024, 6, 15>>
    /\ Data = <<[date |-> isoformat(<<2024, 6, 14>>), count |-> 9],
                [date |-> isoformat(<<2024, 6, 15>>), count |-> 10]>>
    /\ Cardinality(DayCells(view.cal)) = 30
    /\ MetCells(view.cal) = {<<3, 6>>}

\* C8: add_outreach on a row followed by remove_outreach on the same row
\* leaves the row's count where it was, and each step persists on its own:
\* the file holds the original count plus 1 after the add and the original
\* count after the remove.
AddThenRemoveIsNeutral ==
    /\ last.op = "add" => (last.post = last.pre + 1 /\ last.persisted = last.pre + 1)
    /\ (last.op = "remove" /\ last.paired >= 0) =>
          /\ last.post = last.paired
          /\ last.persisted = last.paired
          /\ phase = "rerun" => (Data[last.idx].count = last.paired
                                 /\ Persisted(file, last.idx) = last.paired)

AddThenRemoveWitness ==
    /\ phase = "rerun"
    /\ last.op = "remove"
    /\ last.paired >= 1
    /\ Len(Data) >= 2

\* C9: add_outreach and remove_outreach change nothing of the table but the
\* count of their row (+1; -1, or nothing at count 0); init_data keeps every
\* row it finds, in place; and within a session the table never shrinks and
\* no row changes its date.
OnlyTheRowCountChanges ==
    /\ [][(AddOutreach \/ RemoveOutreach) =>
            LET T == Data
                T1 == session_state'["data"]
                i == last'.idx
            IN /\ Len(T1) = Len(T)
               /\ \A j \in 1..Len(T) : T1[j].date = T[j].date
               /\ \A j \in 1..Len(T) : j # i => T1[j].count = T[j].count
               /\ T1[i].count - T[i].count =
                     (IF last'.op = "add" THEN 1 ELSE IF T[i].count > 0 THEN -1 ELSE 0)]_vars
    /\ [][Main =>
            LET T == TableBefore
                T1 == session_state'["data"]
            IN Len(T1) >= Len(T) /\ SubSeq(T1, 1, Len(T)) = T]_vars
    /\ [][(Loaded /\ Has(session_state', "data")) =>
            LET T == Data
                T1 == session_state'["data"]
            IN /\ Len(T1) >= Len(T)
               /\ \A j \in 1..Len(T) : T1[j].date = T[j].date]_vars

\* a click on the first of several rows
OnlyTheRowCountChangesWitness ==
    /\ phase = "rerun"
    /\ Len(Data) >= 3
    /\ last.op = "add" /\ last.idx = 1 /\ last.pre >= 1

\* C10 as stated: once init_data has run, session_state["count"] is the count
\* of the row of the current calendar date (read where that row exists).
TodayCountIsCurrentDateCount ==
    (Loaded /\ Has(session_state, "count") /\ isoformat(now) \in Dates(Data)) =>
        session_state["count"] = Data[FirstIndex(Data, isoformat(now))].count

\* C10, amended: once init_data has run, session_state["count"] is the count
\* of the row whose date is session_state["today"], the date of the session's
\* first init_data, and main() shows that date and that count.
TodayCountIsSessionDateCount ==
    Has(session_state, "count") =>
        /\ session_state["today"] \in Dates(Data)
        /\ session_state["count"] = Data[FirstIndex(Data, session_state["today"])].count
        /\ phase = "idle" => /\ view.today_count = session_state["count"]
                             /\ view.today_str = session_state["today"]

\* the date has advanced in the session, main() has run again, and the
\* session's day has a count the new day's row does not have
TodayCountWitness ==
    /\ Has(session_state, "count")
    /\ phase = "idle"
    /\ session_state["today"] # isoformat(now)
    /\ isoformat(now) \in Dates(Data)
    /\ session_state["count"] >= 1
    /\ Data[FirstIndex(Data, isoformat(now))].count = 0

====
